---- MODULE Spec2Model ----
(***************************************************************************)
(* A model of finder.py: the two-phase duplicate detection                 *)
(* (get_hash, get_duplicates) and the four actions main dispatches to      *)
(* (output_to_stdout, output_to_file, move_duplicates, delete_duplicates). *)
(*                                                                         *)
(* The file system is a set of directory entries (fs: path -> inode), the  *)
(* inodes' byte contents (data) and the set of directories (dirs).         *)
(* A python dict is a sequence of [key, val] records in insertion order.   *)
(***************************************************************************)
EXTENDS Integers, Sequences, FiniteSets, TLC

\* ---- bounds of the model ----
NumFiles == 4      \* at most this many files are enumerated
NumDirs == 2       \* the files are spread over this many source directories

\* The 4096 of f.read(4096), in the model's unit: one model byte stands for a
\* run of 4096 bytes, so that a file of two model bytes is longer than the prefix.
ChunkSize == 1

\* Files reach one byte past the prefix phase 1 reads.
MaxLen == ChunkSize + 1
Bytes == {0, 1}

Content == UNION {[1..n -> Bytes] : n \in 0..MaxLen}

Min(a, b) == IF a < b THEN a ELSE b

\* The path of the k-th enumerated file: files k and k + NumDirs have the
\* same directory, files in one block of NumDirs have the same name.
PathOf(k) ==
    [top |-> "root", dir |-> 1 + ((k - 1) % NumDirs), name |-> 1 + ((k - 1) \div NumDirs)]

NoPath == [top |-> "", dir |-> 0, name |-> 0]

NoDir == [top |-> "", dir |-> 0]

\* The directory the one pre-existing folder of the scanned root has.
InitDirs == {[top |-> "existing", dir |-> 0]}

InitFs(fl) == [p \in {fl[k] : k \in 1..Len(fl)} |-> CHOOSE k \in 1..Len(fl) : fl[k] = p]

\* ---- get_hash ----

\* hashlib.md5(...).hexdigest(), taken as collision-free: an injective
\* numbering of the byte strings (always >= 1).
RECURSIVE Md5(_)
Md5(bytes) ==
    IF bytes = <<>> THEN 1
    ELSE 2 * Md5(SubSeq(bytes, 1, Len(bytes) - 1)) + bytes[Len(bytes)]

\* f.read(n) at offset pos of a file holding content.
read(content, pos, n) == SubSeq(content, pos + 1, Min(pos + n, Len(content)))

\* The while loop of a full scan: what md5_value has been updated with.
RECURSIVE full_scan_loop(_, _, _)
full_scan_loop(content, pos, acc) ==
    LET chunk == read(content, pos, ChunkSize)
    IN  IF chunk = <<>> THEN acc
        ELSE full_scan_loop(content, pos + Len(chunk), acc \o chunk)

get_hash_prefix_only(content, full_scan) == Md5(read(content, 0, ChunkSize))

get_hash(content, full_scan) ==
    IF full_scan
    THEN Md5(full_scan_loop(content, 0, <<>>))
    ELSE Md5(read(content, 0, ChunkSize))

\* ---- dict of lists ----
DictHas(d, k) == \E j \in 1..Len(d) : d[j].key = k

DictIndex(d, k) == CHOOSE j \in 1..Len(d) : d[j].key = k

\* if file_hash not in d: d[file_hash] = [file]  else: d[file_hash].append(file)
dict_add(d, k, file) ==
    IF ~DictHas(d, k)
    THEN Append(d, [key |-> k, val |-> <<file>>])
    ELSE [d EXCEPT ![DictIndex(d, k)].val = Append(@, file)]

RECURSIVE collect_all(_)
collect_all(d) ==
    IF d = <<>> THEN <<>>
    ELSE d[1].val \o collect_all(Tail(d))

RECURSIVE collect_candidates_reversed(_)
collect_candidates_reversed(d) ==
    IF d = <<>> THEN <<>>
    ELSE collect_candidates_reversed(Tail(d))
         \o (IF Len(d[1].val) > 1
             THEN [j \in 1..Len(d[1].val) |-> d[1].val[Len(d[1].val) + 1 - j]]
             ELSE <<>>)

\* possible_duplicates: the lists of more than one file, concatenated in dict order
RECURSIVE collect_candidates(_)
collect_candidates(d) ==
    IF d = <<>> THEN <<>>
    ELSE (IF Len(d[1].val) > 1 THEN d[1].val ELSE <<>>) \o collect_candidates(Tail(d))

filter_keep_all(d) == d

\* {k: v for k, v in definite_duplicates.items() if len(v) > 1}
RECURSIVE filter_unique(_)
filter_unique(d) ==
    IF d = <<>> THEN <<>>
    ELSE (IF Len(d[1].val) > 1 THEN <<d[1]>> ELSE <<>>) \o filter_unique(Tail(d))

\* ---- the actions' helpers ----
RECURSIVE file_lines(_)
file_lines(v) ==
    IF v = <<>> THEN <<>>
    ELSE <<[hash |-> 0, file |-> v[1]]>> \o file_lines(Tail(v))

\* The lines output_to_stdout and output_to_file emit: "<hash>:" then "\t<file>" per member.
RECURSIVE report_lines(_)
report_lines(d) ==
    IF d = <<>> THEN <<>>
    ELSE <<[hash |-> d[1].key, file |-> NoPath]>> \o file_lines(d[1].val)
         \o report_lines(Tail(d))

delete_victims_off_by_one(v) == SubSeq(v, 3, Len(v))

delete_victims_all(v) == v

\* v[1:]
delete_victims(v) == SubSeq(v, 2, Len(v))

mkdir_exist_ok(d, ds) == TRUE

\* os.mkdir(d) succeeds only when d does not exist
mkdir_ok(d, ds) == d \notin ds

\* output_folder.joinpath(hash_str)
subfolder_of(folder, hash_str) == [top |-> folder.top, dir |-> hash_str]

\* shutil.move(src, dst) into an existing directory dst: dst/basename(src)
real_dst(file, subfolder) == [top |-> subfolder.top, dir |-> subfolder.dir, name |-> file.name]

unlink(f, p) == [q \in (DOMAIN f) \ {p} |-> f[q]]

rename(f, p, q) == [r \in ((DOMAIN f) \ {p}) \cup {q} |-> IF r = q THEN f[p] ELSE f[r]]

VARIABLES
    files,                \* main: the enumerated list of paths
    data,                 \* inode -> byte content
    fs,                   \* path -> inode, the regular files that exist
    dirs,                 \* the directories that exist (besides the source directories)
    pc,                   \* where main is
    i,                    \* the index of the running for loop of get_duplicates
    partial_hashes,
    possible_duplicates,
    definite_duplicates,
    duplicates,           \* main: what get_duplicates returned
    action,               \* args.action once main dispatches on it
    output_folder,
    gi, mi,               \* move/delete: the group and the member the loops are at
    count_bytes, count_files,
    warnings,             \* the log.warning lines of move/delete
    hash_log,             \* the log.debug lines of get_hash
    error,                \* the exception that left main, if any
    output                \* what list/file wrote

vars == <<files, data, fs, dirs, pc, i, partial_hashes, possible_duplicates,
          definite_duplicates, duplicates, action, output_folder, gi, mi,
          count_bytes, count_files, warnings, hash_log, error, output>>

detect_vars == <<i, partial_hashes, possible_duplicates, definite_duplicates, duplicates, hash_log>>
disk_vars == <<files, data, fs, dirs>>
act_vars == <<action, output_folder, gi, mi, count_bytes, count_files, warnings, output>>

Init ==
    /\ \E n \in 0..NumFiles :
         /\ files = [k \in 1..n |-> PathOf(k)]
         /\ data \in [1..n -> Content]
    /\ fs = InitFs(files)
    /\ dirs = InitDirs
    /\ pc = "main"
    /\ i = 1
    /\ partial_hashes = <<>>
    /\ possible_duplicates = <<>>
    /\ definite_duplicates = <<>>
    /\ duplicates = <<>>
    /\ action = "none"
    /\ output_folder = NoDir
    /\ gi = 1
    /\ mi = 1
    /\ count_bytes = 0
    /\ count_files = 0
    /\ warnings = <<>>
    /\ hash_log = <<>>
    /\ error = "none"
    /\ output = [channel |-> "none", lines |-> <<>>]

\* ---- main, up to the call of get_duplicates ----
MainNothing ==
    /\ pc = "main"
    /\ files = <<>>
    /\ pc' = "done"
    /\ UNCHANGED <<detect_vars, disk_vars, act_vars, error>>

MainDetect ==
    /\ pc = "main"
    /\ files # <<>>
    /\ pc' = "phase1"
    /\ i' = 1
    /\ UNCHANGED <<partial_hashes, possible_duplicates, definite_duplicates, duplicates,
                   hash_log, disk_vars, act_vars, error>>

\* ---- get_duplicates ----
Phase1Hash ==
    /\ pc = "phase1"
    /\ i <= Len(files)
    /\ files[i] \in DOMAIN fs
    /\ LET file == files[i]
           file_hash == get_hash(data[fs[file]], FALSE)
       IN  /\ partial_hashes' = dict_add(partial_hashes, file_hash, file)
           /\ hash_log' = Append(hash_log, [file |-> file, full |-> FALSE])
    /\ i' = i + 1
    /\ UNCHANGED <<pc, possible_duplicates, definite_duplicates, duplicates,
                   disk_vars, act_vars, error>>

Phase1Fail_caught ==
    /\ pc = "phase1"
    /\ i <= Len(files)
    /\ error' = "hash"
    /\ i' = i + 1
    /\ UNCHANGED <<pc, partial_hashes, possible_duplicates, definite_duplicates, duplicates,
                   hash_log, disk_vars, act_vars>>

\* get_hash raises (the file cannot be opened or read): nothing catches it
Phase1Fail ==
    /\ pc = "phase1"
    /\ i <= Len(files)
    /\ error' = "hash"
    /\ pc' = "aborted"
    /\ UNCHANGED <<detect_vars, disk_vars, act_vars>>

Collect ==
    /\ pc = "phase1"
    /\ i > Len(files)
    /\ possible_duplicates' = collect_candidates(partial_hashes)
    /\ IF possible_duplicates' = <<>>
       THEN /\ duplicates' = <<>>
            /\ pc' = "dispatch"
            /\ i' = i
       ELSE /\ duplicates' = duplicates
            /\ pc' = "phase2"
            /\ i' = 1
    /\ UNCHANGED <<partial_hashes, definite_duplicates, hash_log, disk_vars, act_vars, error>>

Phase2Hash ==
    /\ pc = "phase2"
    /\ i <= Len(possible_duplicates)
    /\ possible_duplicates[i] \in DOMAIN fs
    /\ LET file == possible_duplicates[i]
           file_hash == get_hash(data[fs[file]], TRUE)
       IN  /\ definite_duplicates' = dict_add(definite_duplicates, file_hash, file)
           /\ hash_log' = Append(hash_log, [file |-> file, full |-> TRUE])
    /\ i' = i + 1
    /\ UNCHANGED <<pc, partial_hashes, possible_duplicates, duplicates,
                   disk_vars, act_vars, error>>

Phase2Fail ==
    /\ pc = "phase2"
    /\ i <= Len(possible_duplicates)
    /\ error' = "hash"
    /\ pc' = "aborted"
    /\ UNCHANGED <<detect_vars, disk_vars, act_vars>>

Filter ==
    /\ pc = "phase2"
    /\ i > Len(possible_duplicates)
    /\ duplicates' = filter_unique(definite_duplicates)
    /\ pc' = "dispatch"
    /\ UNCHANGED <<i, partial_hashes, possible_duplicates, definite_duplicates, hash_log,
                   disk_vars, act_vars, error>>

\* ---- main: the action ----
DispatchList ==
    /\ pc = "dispatch"
    /\ action' = "list"
    /\ output' = [channel |-> "stdout", lines |-> report_lines(duplicates)]
    /\ pc' = "done"
    /\ UNCHANGED <<detect_vars, disk_vars, output_folder, gi, mi, count_bytes, count_files,
                   warnings, error>>

DispatchFile ==
    /\ pc = "dispatch"
    /\ action' = "file"
    /\ output' = [channel |-> "results.txt", lines |-> report_lines(duplicates)]
    /\ pc' = "done"
    /\ UNCHANGED <<detect_vars, disk_vars, output_folder, gi, mi, count_bytes, count_files,
                   warnings, error>>

DispatchDelete ==
    /\ pc = "dispatch"
    /\ action' = "delete"
    /\ count_bytes' = 0
    /\ gi' = 1
    /\ mi' = 1
    /\ pc' = "delete"
    /\ UNCHANGED <<detect_vars, disk_vars, output_folder, count_files, warnings, output, error>>

\* The destination is named by the clock: it may name the folder that exists.
DispatchMove ==
    /\ pc = "dispatch"
    /\ action' = "move"
    /\ \E t \in {"existing", "fresh"} : output_folder' = [top |-> t, dir |-> 0]
    /\ pc' = "move_mkdir"
    /\ UNCHANGED <<detect_vars, disk_vars, gi, mi, count_bytes, count_files, warnings,
                   output, error>>

\* ---- delete_duplicates ----
Victims == delete_victims(duplicates[gi].val)

DeleteOk ==
    /\ pc = "delete"
    /\ gi <= Len(duplicates)
    /\ mi <= Len(Victims)
    /\ LET f == Victims[mi]
       IN  /\ f \in DOMAIN fs
           /\ fs' = unlink(fs, f)
           /\ count_bytes' = count_bytes + Len(data[fs[f]])
    /\ mi' = mi + 1
    /\ UNCHANGED <<detect_vars, files, data, dirs, pc, action, output_folder, gi, count_files,
                   warnings, output, error>>

DeleteFail_skewed ==
    /\ pc = "delete"
    /\ gi <= Len(duplicates)
    /\ mi <= Len(Victims)
    /\ LET f == Victims[mi]
       IN  /\ warnings' = Append(warnings, [file |-> f, err |-> "OSError"])
           /\ count_bytes' = count_bytes + (IF f \in DOMAIN fs THEN Len(data[fs[f]]) ELSE 0)
    /\ mi' = mi + 1
    /\ UNCHANGED <<detect_vars, disk_vars, pc, action, output_folder, gi,
                   count_files, output, error>>

\* f.stat() or f.unlink() raises OSError: logged, the loop goes on
DeleteFail ==
    /\ pc = "delete"
    /\ gi <= Len(duplicates)
    /\ mi <= Len(Victims)
    /\ warnings' = Append(warnings, [file |-> Victims[mi], err |-> "OSError"])
    /\ mi' = mi + 1
    /\ UNCHANGED <<detect_vars, disk_vars, pc, action, output_folder, gi, count_bytes,
                   count_files, output, error>>

\* the inner loop is exhausted: the next v of duplicates.values()
DeleteNextGroup ==
    /\ pc = "delete"
    /\ gi <= Len(duplicates)
    /\ mi > Len(Victims)
    /\ gi' = gi + 1
    /\ mi' = 1
    /\ UNCHANGED <<detect_vars, disk_vars, pc, action, output_folder, count_bytes,
                   count_files, warnings, output, error>>

\* the summary line, then main's "All done."
DeleteFinish ==
    /\ pc = "delete"
    /\ gi > Len(duplicates)
    /\ pc' = "done"
    /\ UNCHANGED <<detect_vars, disk_vars, act_vars, error>>

\* ---- move_duplicates ----
MoveMkdirOk ==
    /\ pc = "move_mkdir"
    /\ mkdir_ok(output_folder, dirs)
    /\ dirs' = dirs \cup {output_folder}
    /\ count_bytes' = 0
    /\ count_files' = 0
    /\ gi' = 1
    /\ pc' = "move_group"
    /\ UNCHANGED <<detect_vars, files, data, fs, action, output_folder, mi, warnings,
                   output, error>>

\* os.mkdir(output_folder) raises (FileExistsError, or it cannot be created)
MoveMkdirFail ==
    /\ pc = "move_mkdir"
    /\ error' = "mkdir"
    /\ pc' = "aborted"
    /\ UNCHANGED <<detect_vars, disk_vars, act_vars>>

Subfolder == subfolder_of(output_folder, duplicates[gi].key)

MoveMkSubOk ==
    /\ pc = "move_group"
    /\ gi <= Len(duplicates)
    /\ mkdir_ok(Subfolder, dirs)
    /\ dirs' = dirs \cup {Subfolder}
    /\ mi' = 1
    /\ pc' = "move_file"
    /\ UNCHANGED <<detect_vars, files, data, fs, action, output_folder, gi, count_bytes,
                   count_files, warnings, output, error>>

\* os.mkdir(subfolder) raises: outside the try, so it leaves move_duplicates
MoveMkSubFail ==
    /\ pc = "move_group"
    /\ gi <= Len(duplicates)
    /\ error' = "mksub"
    /\ pc' = "aborted"
    /\ UNCHANGED <<detect_vars, disk_vars, act_vars>>

MoveOk ==
    /\ pc = "move_file"
    /\ mi <= Len(duplicates[gi].val)
    /\ LET file == duplicates[gi].val[mi]
           dst == real_dst(file, Subfolder)
       IN  /\ file \in DOMAIN fs
           /\ dst \notin DOMAIN fs
           /\ fs' = rename(fs, file, dst)
           /\ count_bytes' = count_bytes + Len(data[fs[file]])
    /\ count_files' = count_files + 1
    /\ mi' = mi + 1
    /\ UNCHANGED <<detect_vars, files, data, dirs, pc, action, output_folder, gi,
                   warnings, output, error>>

\* shutil.move raises shutil.Error (an OSError): the subfolder already holds that name
MoveExists ==
    /\ pc = "move_file"
    /\ mi <= Len(duplicates[gi].val)
    /\ LET file == duplicates[gi].val[mi]
       IN  /\ file \in DOMAIN fs
           /\ real_dst(file, Subfolder) \in DOMAIN fs
           /\ warnings' = Append(warnings, [file |-> file, err |-> "shutil.Error"])
    /\ mi' = mi + 1
    /\ UNCHANGED <<detect_vars, disk_vars, pc, action, output_folder, gi, count_bytes,
                   count_files, output, error>>

\* file.stat() or shutil.move raises another OSError: logged, the loop goes on
MoveFail ==
    /\ pc = "move_file"
    /\ mi <= Len(duplicates[gi].val)
    /\ warnings' = Append(warnings, [file |-> duplicates[gi].val[mi], err |-> "OSError"])
    /\ mi' = mi + 1
    /\ UNCHANGED <<detect_vars, disk_vars, pc, action, output_folder, gi, count_bytes,
                   count_files, output, error>>

MoveNextGroup ==
    /\ pc = "move_file"
    /\ mi > Len(duplicates[gi].val)
    /\ gi' = gi + 1
    /\ pc' = "move_group"
    /\ UNCHANGED <<detect_vars, disk_vars, action, output_folder, mi, count_bytes,
                   count_files, warnings, output, error>>

MoveFinish ==
    /\ pc = "move_group"
    /\ gi > Len(duplicates)
    /\ pc' = "done"
    /\ UNCHANGED <<detect_vars, disk_vars, act_vars, error>>

Next ==
    \/ MainNothing
    \/ MainDetect
    \/ Phase1Hash
    \/ Phase1Fail
    \/ Collect
    \/ Phase2Hash
    \/ Phase2Fail
    \/ Filter
    \/ DispatchList
    \/ DispatchFile
    \/ DispatchDelete
    \/ DispatchMove
    \/ DeleteOk
    \/ DeleteFail
    \/ DeleteNextGroup
    \/ DeleteFinish
    \/ MoveMkdirOk
    \/ MoveMkdirFail
    \/ MoveMkSubOk
    \/ MoveMkSubFail
    \/ MoveOk
    \/ MoveExists
    \/ MoveFail
    \/ MoveNextGroup
    \/ MoveFinish

Spec == Init /\ [][Next]_vars

\* ---- what the claims speak of ----

\* get_duplicates has just returned to main: duplicates holds its result.
\* (No later step assigns files, data, duplicates or any variable of get_duplicates.)
Returned == pc = "dispatch"

\* get_duplicates is running, has returned or was left by an exception
InDetection == pc \in {"phase1", "phase2", "dispatch"} \/ error = "hash"

Index(p) == CHOOSE k \in 1..Len(files) : files[k] = p

Inputs == 1..Len(files)

Groups == 1..Len(duplicates)

Members(g) == {duplicates[g].val[a] : a \in 1..Len(duplicates[g].val)}

SameGroup(x, y) == \E g \in Groups : files[x] \in Members(g) /\ files[y] \in Members(g)

InSomeGroup(x) == \E g \in Groups : files[x] \in Members(g)

Prefix(x) == read(data[x], 0, ChunkSize)

Warned(p) == \E j \in 1..Len(warnings) : warnings[j].file = p

\* the input files that are no longer at the path they were enumerated at
Gone == {k \in Inputs : files[k] \notin DOMAIN fs}

RECURSIVE SumSize(_)
SumSize(S) ==
    IF S = {} THEN 0
    ELSE LET k == CHOOSE k \in S : TRUE IN Len(data[k]) + SumSize(S \ {k})

FullHashed == {j \in 1..Len(hash_log) : hash_log[j].full}

\* C1: once get_duplicates has returned, two distinct input files are in one
\* group iff their byte contents are equal; in particular two files with the
\* same first ChunkSize bytes and different contents are never in one group,
\* and any two empty files are in one group.
C1_GroupedIffIdentical ==
    Returned =>
        LET groups_of == [x \in Inputs |-> {g \in Groups : files[x] \in Members(g)}]
        IN  \A x, y \in Inputs :
                x # y =>
                    LET same_group == groups_of[x] \cap groups_of[y] # {}
                    IN  /\ same_group <=> (data[x] = data[y])
                        /\ (Prefix(x) = Prefix(y) /\ data[x] # data[y]) => ~same_group
                        /\ (data[x] = <<>> /\ data[y] = <<>>) => same_group

C1_Witness ==
    /\ Returned
    /\ \E x, y, z \in Inputs :
         /\ x # y /\ data[x] = data[y] /\ SameGroup(x, y)
         /\ Prefix(z) = Prefix(x) /\ data[z] # data[x] /\ ~SameGroup(x, z)

\* C2: every group of the returned DuplicateSet has at least two members, no
\* file is twice in one group and no file is in two groups.
C2_GroupsWellFormed ==
    Returned =>
        /\ \A g \in Groups :
             /\ Len(duplicates[g].val) >= 2
             /\ \A a, b \in 1..Len(duplicates[g].val) :
                  a # b => duplicates[g].val[a] # duplicates[g].val[b]
        /\ \A g, h \in Groups : g # h => Members(g) \cap Members(h) = {}

C2_Witness ==
    /\ Returned
    /\ Len(duplicates) >= 1
    /\ Len(definite_duplicates) > Len(duplicates)

\* C3: within every group the members are in the order of the input list.
C3_GroupOrderIsInputOrder ==
    Returned =>
        \A g \in Groups :
            \A a, b \in 1..Len(duplicates[g].val) :
                a < b => Index(duplicates[g].val[a]) < Index(duplicates[g].val[b])

\* a group was returned although phase 2 did not run in input order
C3_Witness ==
    /\ Returned
    /\ Len(duplicates) >= 1
    /\ \E a, b \in 1..Len(possible_duplicates) :
         a < b /\ Index(possible_duplicates[a]) > Index(possible_duplicates[b])

\* C4 as claimed: after delete_duplicates, in every group the first member
\* exists and no other member does, whatever stat/unlink calls failed.
C4_Original ==
    (pc = "done" /\ action = "delete") =>
        \A g \in Groups :
            /\ duplicates[g].val[1] \in DOMAIN fs
            /\ \A a \in 2..Len(duplicates[g].val) : duplicates[g].val[a] \notin DOMAIN fs

\* C4 amended: after delete_duplicates, in every group the first member
\* exists and every other member has been removed, except exactly those
\* whose stat/unlink failed (a warning names them), which still exist.
C4_FirstKeptOthersRemovedUnlessFailed ==
    (pc = "done" /\ action = "delete") =>
        \A g \in Groups :
            /\ duplicates[g].val[1] \in DOMAIN fs
            /\ \A a \in 2..Len(duplicates[g].val) :
                 (duplicates[g].val[a] \in DOMAIN fs) <=> Warned(duplicates[g].val[a])

C4_Witness ==
    /\ pc = "done"
    /\ action = "delete"
    /\ \E g \in Groups :
         \E a, b \in 2..Len(duplicates[g].val) :
             /\ duplicates[g].val[a] \notin DOMAIN fs
             /\ Warned(duplicates[g].val[b])

MovedTo(g, p) == real_dst(p, subfolder_of(output_folder, duplicates[g].key))

\* C5: after move_duplicates has finished, in a run where no stat or move
\* met a failure of the operating system, every member of every group is in
\* <output_folder>/<digest>/ under its own name and none is where it was.
C5_AllMembersMoved ==
    (/\ pc = "done"
     /\ action = "move"
     /\ \A j \in 1..Len(warnings) : warnings[j].err # "OSError") =>
        \A g \in Groups :
            \A p \in Members(g) :
                /\ p \notin DOMAIN fs
                /\ MovedTo(g, p) \in DOMAIN fs
                /\ fs[MovedTo(g, p)] = Index(p)

\* C6: a failure on one member file never aborts move or delete (only a
\* failed mkdir leaves move), the counters count exactly the files that
\* were moved or deleted, and at the summary every member (every member but
\* the first, for delete) has been moved or deleted or has its warning.
C6_FileFailureIsLocal ==
    /\ action = "delete" =>
         /\ pc \in {"delete", "done"}
         /\ error = "none"
         /\ count_bytes = SumSize(Gone)
         /\ \A j \in 1..Len(warnings) : warnings[j].file \in DOMAIN fs
         /\ pc = "done" =>
              \A g \in Groups :
                  \A a \in 2..Len(duplicates[g].val) :
                      duplicates[g].val[a] \notin DOMAIN fs \/ Warned(duplicates[g].val[a])
    /\ action = "move" =>
         /\ pc = "aborted" => error \in {"mkdir", "mksub"}
         /\ count_files = Cardinality(Gone)
         /\ count_bytes = SumSize(Gone)
         /\ \A j \in 1..Len(warnings) : warnings[j].file \in DOMAIN fs
         /\ pc = "done" =>
              \A g \in Groups :
                  \A p \in Members(g) : p \notin DOMAIN fs \/ Warned(p)

\* a member failed and a later member of the same group was still deleted
C6_Witness ==
    /\ pc = "done"
    /\ action = "delete"
    /\ count_bytes > 0
    /\ \E g \in Groups :
         \E a, b \in 2..Len(duplicates[g].val) :
             /\ a < b
             /\ Warned(duplicates[g].val[a])
             /\ duplicates[g].val[b] \notin DOMAIN fs

\* C7: when the destination of move exists already (or its mkdir fails
\* otherwise), move_duplicates is left at once: no subfolder is made, no
\* file is moved, the existing directory receives nothing.
C7_ExistingDestinationIsFatal ==
    /\ (action = "move" /\ output_folder \in InitDirs /\ pc # "move_mkdir") =>
           (pc = "aborted" /\ error = "mkdir")
    /\ error = "mkdir" =>
           /\ pc = "aborted"
           /\ fs = InitFs(files)
           /\ dirs = InitDirs
           /\ count_files = 0 /\ count_bytes = 0
           /\ warnings = <<>>

C7_Witness ==
    /\ error = "mkdir"
    /\ output_folder \in InitDirs
    /\ duplicates # <<>>

\* C8: a failure of get_hash in either phase ends the run: nothing is
\* returned to main, no action is dispatched, nothing is written, moved or
\* deleted.
C8_HashFailureAborts ==
    error = "hash" =>
        /\ pc = "aborted"
        /\ action = "none"
        /\ duplicates = <<>>
        /\ output.channel = "none"
        /\ fs = InitFs(files)
        /\ dirs = InitDirs

\* the failure hit a candidate in phase 2
C8_Witness ==
    /\ error = "hash"
    /\ pc = "aborted"
    /\ possible_duplicates # <<>>
    /\ definite_duplicates # <<>>

\* C9: a full digest is computed only of a file whose partial digest another
\* input file shares, and at most once per file; when no two input files
\* share a partial digest none is computed and the result is empty.
C9_FullScanOnlyOfCandidates ==
    InDetection =>
    LET full_hashed == FullHashed
        partial == [x \in Inputs |-> get_hash(data[x], FALSE)]
    IN  /\ \A j \in full_hashed :
             \E y \in Inputs :
                 /\ files[y] # hash_log[j].file
                 /\ partial[y] = partial[Index(hash_log[j].file)]
        /\ \A j, k \in full_hashed : j # k => hash_log[j].file # hash_log[k].file
        /\ (\A x, y \in Inputs : x # y => partial[x] # partial[y]) =>
               /\ full_hashed = {}
               /\ duplicates = <<>>

C9_Witness ==
    /\ Returned
    /\ FullHashed # {}
    /\ \E x \in Inputs : \A j \in FullHashed : hash_log[j].file # files[x]

NonFirstMember(p) ==
    \E g \in Groups : \E a \in 2..Len(duplicates[g].val) : duplicates[g].val[a] = p

\* C10: during and after delete_duplicates every content an input file held
\* is still held by a file that exists, and every file that is not a
\* non-first member of a group is where it was, with its content.
C10_DeleteLosesNoContent ==
    action = "delete" =>
        /\ \A k \in Inputs : \E p \in DOMAIN fs : data[fs[p]] = data[k]
        /\ \A k \in Inputs :
             ~NonFirstMember(files[k]) => (files[k] \in DOMAIN fs /\ fs[files[k]] = k)

C10_Witness ==
    /\ pc = "done"
    /\ action = "delete"
    /\ Gone # {}
    /\ \E k \in Inputs : ~InSomeGroup(k)

====
